---- MODULE Spec2Model ----
(***************************************************************************)
(* Model of the two hash tables of the repository:                         *)
(*   project/task5/hash_table.py   HashTable         (single context)      *)
(*   project/task6/MultiHash.py    ParallelHashTable (one lock per bucket, *)
(*                                 storage held by a multiprocessing       *)
(*                                 Manager)                                *)
(* Every access of a context to the Manager's objects (a lock, a bucket    *)
(* list, the Value holding the size) is a separate request to the Manager  *)
(* process, so the contexts' requests interleave.  One step of the model   *)
(* is one such request, except that the requests a context makes on a      *)
(* bucket between acquiring and releasing that bucket's lock are taken     *)
(* together with the scan they belong to.                                  *)
(***************************************************************************)
EXTENDS Integers, Sequences, FiniteSets, TLC

\* ------------------------------------------------------------------ bounds
NumContexts == 2
NumKeys == 3
NumValues == 2
Volume == 2
MaxCalls == 3
PerWorker == 2

Contexts == 1..NumContexts
Keys == 0..(NumKeys - 1)
Values == 1..NumValues
BucketIds == 0..(Volume - 1)

VARIABLES
    volume,     \* self.volume of both tables: the constructor's argument
    buckets,    \* ParallelHashTable.buckets: bucket index -> sequence of <<key, value>>
    size,       \* ParallelHashTable.size.value
    locks,      \* ParallelHashTable.locks: bucket index -> context holding it, 0 when free
    ctx,        \* per context: the call it is in and the locals of that call
    calls,      \* number of calls started so far (bounds the runs with several contexts)
    worker,     \* per context: the test's Process target it runs, and its loop counter
    hbuckets,   \* HashTable.buckets
    hsize,      \* HashTable.size
    hres,       \* result of the last HashTable call
    last        \* key -> <<value>> of the latest set not followed by a delete or clear, else <<>>

pvars == <<volume, buckets, size, locks, ctx>>
hvars == <<hbuckets, hsize, hres>>
vars == <<buckets, size, locks, ctx, calls, worker, hbuckets, hsize, hres, last>>

\* ----------------------------------------------------------- pure helpers

\* Python's hash() of a small non-negative int is the int itself.
hash(key) == key

\* Python's a % n for n # 0: the result has the sign of n.  (n = 0 raises
\* ZeroDivisionError.)
PyMod(a, n) == IF n > 0 THEN a % n ELSE 0 - ((0 - a) % (0 - n))

\* _hash: the bucket index of a key.
_hash(key) == PyMod(hash(key), volume)

RECURSIVE IndexFrom(_, _, _)
\* The scan `for i in range(len(bucket)): k, v = bucket[i]; if k == key`:
\* the first position at or after i holding key, 0 when there is none.
IndexFrom(bucket, key, i) ==
    IF i > Len(bucket) THEN 0
    ELSE IF bucket[i][1] = key THEN i
    ELSE IndexFrom(bucket, key, i + 1)

\* Mutant of IndexOf: the comparison `k == key` never succeeds.
IndexOfNothing(bucket, key) == 0

IndexOf(bucket, key) == IndexFrom(bucket, key, 1)

\* Mutant of RemoveAt: `del bucket[i:]`, which also drops the entries after i.
RemoveFrom(bucket, i) == SubSeq(bucket, 1, i - 1)

\* del bucket[i]
RemoveAt(bucket, i) ==
    [j \in 1..(Len(bucket) - 1) |-> IF j < i THEN bucket[j] ELSE bucket[j + 1]]

RECURSIVE SumLen(_, _)
\* Sum of the lengths of buckets b, b+1, ... of a bucket array bs.
SumLen(bs, b) ==
    IF b >= Volume THEN 0 ELSE Len(bs[b]) + SumLen(bs, b + 1)

RECURSIVE NextCursor(_, _, _)
\* The nested loops `for bucket in self.buckets: for item in bucket`: the
\* first position <<bucket, chain index>> at or after <<b, j>> that holds
\* an item, <<Volume, 1>> when the loops are exhausted.
NextCursor(bs, b, j) ==
    IF b >= Volume THEN <<Volume, 1>>
    ELSE IF j <= Len(bs[b]) THEN <<b, j>>
    ELSE NextCursor(bs, b + 1, 1)

RECURSIVE KeysFrom(_, _, _)
\* All keys the nested loops yield from position <<b, j>> on.
KeysFrom(bs, b, j) ==
    LET cur == NextCursor(bs, b, j) IN
    IF cur[1] >= Volume THEN <<>>
    ELSE <<bs[cur[1]][cur[2]][1]>> \o KeysFrom(bs, cur[1], cur[2] + 1)

\* ------------------------------------------------- context bookkeeping

Idle ==
    [pc |-> "idle", key |-> 0, val |-> 0, idx |-> 0, pos |-> 1, tmp |-> 0,
     ret |-> 0, exc |-> "", out |-> <<>>]

Goto(c, rec) == ctx' = [ctx EXCEPT ![c] = rec]

At(c, pc) == ctx[c].pc = pc

\* Mutant of Acquire: the lock is taken whether or not it is held.
AcquireBarging(c, i) == locks' = [locks EXCEPT ![i] = c]

\* lock.acquire() / entering `with lock`: blocks while the lock is held.
Acquire(c, i) == locks[i] = 0 /\ locks' = [locks EXCEPT ![i] = c]

\* lock.release() / leaving `with lock`.
Release(i) == locks' = [locks EXCEPT ![i] = 0]

\* Mutant of LockOrder: each context walks the locks from a different start.
RotatedLockOrder(c) == [n \in 1..Volume |-> (n - 1 + c) % Volume]

\* `for lock in self.locks`: the order in which a context walks the lock list.
LockOrder(c) == [n \in 1..Volume |-> n - 1]

\* ------------------------------------------ ParallelHashTable.__setitem__

setitem_call(c, k, v) ==
    /\ At(c, "idle")
    /\ Goto(c, [Idle EXCEPT !.pc = "set_acq", !.key = k, !.val = v, !.idx = _hash(k)])
    /\ UNCHANGED <<buckets, size, locks>>

\* Mutant of setitem_lock: the bucket is scanned without taking its lock.
setitem_lock_skip(c) ==
    /\ At(c, "set_acq")
    /\ Goto(c, [ctx[c] EXCEPT !.pc = "set_scan"])
    /\ UNCHANGED <<buckets, size, locks>>

setitem_lock(c) ==
    /\ At(c, "set_acq")
    /\ Acquire(c, ctx[c].idx)
    /\ Goto(c, [ctx[c] EXCEPT !.pc = "set_scan"])
    /\ UNCHANGED <<buckets, size>>

\* Mutant of Upsert: the scan never matches, every set appends.
OverwriteAppends(bucket, key, value) == Append(bucket, <<key, value>>)

\* Mutant of Upsert: an overwrite removes the entry and appends the new one.
UpsertMoveToEnd(bucket, key, value) ==
    LET i == IndexOf(bucket, key) IN
    Append(IF i > 0 THEN RemoveAt(bucket, i) ELSE bucket, <<key, value>>)

\* The bucket after the loop's `bucket[i] = (key, value)` or `bucket.append`.
Upsert(bucket, key, value) ==
    LET i == IndexOf(bucket, key) IN
    IF i > 0 THEN [bucket EXCEPT ![i] = <<key, value>>]
    ELSE Append(bucket, <<key, value>>)

\* Mutant of setitem_scan: the `return` after an overwrite is missing, so
\* the counter is incremented for an overwrite too.
setitem_scan_noreturn(c) ==
    /\ At(c, "set_scan")
    /\ buckets' = [buckets EXCEPT ![ctx[c].idx] = Upsert(@, ctx[c].key, ctx[c].val)]
    /\ Goto(c, [ctx[c] EXCEPT !.pc = "set_read"])
    /\ UNCHANGED <<size, locks>>

\* The scan of the bucket under its lock: overwrite and return, or append
\* and go on to the increment.
setitem_scan(c) ==
    /\ At(c, "set_scan")
    /\ LET b == ctx[c].idx
           found == IndexOf(buckets[b], ctx[c].key) > 0
       IN /\ buckets' = [buckets EXCEPT ![b] = Upsert(@, ctx[c].key, ctx[c].val)]
          /\ Goto(c, [ctx[c] EXCEPT !.pc = IF found THEN "set_rel" ELSE "set_read"])
    /\ UNCHANGED <<size, locks>>

\* self.size.value += 1 is a get request followed by a set request.
setitem_read(c) ==
    /\ At(c, "set_read")
    /\ Goto(c, [ctx[c] EXCEPT !.pc = "set_write", !.tmp = size])
    /\ UNCHANGED <<buckets, size, locks>>

setitem_write(c) ==
    /\ At(c, "set_write")
    /\ size' = ctx[c].tmp + 1
    /\ Goto(c, [ctx[c] EXCEPT !.pc = "set_rel"])
    /\ UNCHANGED <<buckets, locks>>

setitem_unlock(c) ==
    /\ At(c, "set_rel")
    /\ Release(ctx[c].idx)
    /\ Goto(c, Idle)
    /\ UNCHANGED <<buckets, size>>

\* ------------------------------------------ ParallelHashTable.__getitem__

getitem_call(c, k) ==
    /\ At(c, "idle")
    /\ Goto(c, [Idle EXCEPT !.pc = "get_acq", !.key = k, !.idx = _hash(k)])
    /\ UNCHANGED <<buckets, size, locks>>

getitem_lock(c) ==
    /\ At(c, "get_acq")
    /\ Acquire(c, ctx[c].idx)
    /\ Goto(c, [ctx[c] EXCEPT !.pc = "get_scan"])
    /\ UNCHANGED <<buckets, size>>

\* Mutant of getitem_scan: a miss returns a default value instead of raising.
getitem_scan_default(c) ==
    /\ At(c, "get_scan")
    /\ LET b == buckets[ctx[c].idx]
           i == IndexOf(b, ctx[c].key)
       IN Goto(c, IF i > 0
                  THEN [ctx[c] EXCEPT !.pc = "get_rel", !.ret = b[i][2]]
                  ELSE [ctx[c] EXCEPT !.pc = "get_rel"])
    /\ UNCHANGED <<buckets, size, locks>>

\* The value `return v` gives, or the KeyError raised once the lock is left.
getitem_scan(c) ==
    /\ At(c, "get_scan")
    /\ LET b == buckets[ctx[c].idx]
           i == IndexOf(b, ctx[c].key)
       IN Goto(c, IF i > 0
                  THEN [ctx[c] EXCEPT !.pc = "get_rel", !.ret = b[i][2]]
                  ELSE [ctx[c] EXCEPT !.pc = "get_rel", !.exc = "KeyError"])
    /\ UNCHANGED <<buckets, size, locks>>

\* Mutant of getitem_unlock: the call is left without releasing the lock.
getitem_unlock_leak(c) ==
    /\ At(c, "get_rel")
    /\ Goto(c, Idle)
    /\ UNCHANGED <<buckets, size, locks>>

getitem_unlock(c) ==
    /\ At(c, "get_rel")
    /\ Release(ctx[c].idx)
    /\ Goto(c, Idle)
    /\ UNCHANGED <<buckets, size>>

\* ------------------------------------------ ParallelHashTable.__delitem__

delitem_call(c, k) ==
    /\ At(c, "idle")
    /\ Goto(c, [Idle EXCEPT !.pc = "del_acq", !.key = k, !.idx = _hash(k)])
    /\ UNCHANGED <<buckets, size, locks>>

delitem_lock(c) ==
    /\ At(c, "del_acq")
    /\ Acquire(c, ctx[c].idx)
    /\ Goto(c, [ctx[c] EXCEPT !.pc = "del_scan"])
    /\ UNCHANGED <<buckets, size>>

\* Mutant of delitem_scan: the decrement is outside the `if`, so a delete
\* that finds nothing still decrements the counter before it raises.
delitem_scan_decrements(c) ==
    /\ At(c, "del_scan")
    /\ LET b == ctx[c].idx
           i == IndexOf(buckets[b], ctx[c].key)
       IN IF i > 0
          THEN /\ buckets' = [buckets EXCEPT ![b] = RemoveAt(@, i)]
               /\ Goto(c, [ctx[c] EXCEPT !.pc = "del_read"])
          ELSE /\ UNCHANGED buckets
               /\ Goto(c, [ctx[c] EXCEPT !.pc = "del_read", !.exc = "KeyError"])
    /\ UNCHANGED <<size, locks>>

\* The scan of the bucket under its lock: remove the entry and go on to
\* the decrement, or leave the lock and raise KeyError.
delitem_scan(c) ==
    /\ At(c, "del_scan")
    /\ LET b == ctx[c].idx
           i == IndexOf(buckets[b], ctx[c].key)
       IN IF i > 0
          THEN /\ buckets' = [buckets EXCEPT ![b] = RemoveAt(@, i)]
               /\ Goto(c, [ctx[c] EXCEPT !.pc = "del_read"])
          ELSE /\ UNCHANGED buckets
               /\ Goto(c, [ctx[c] EXCEPT !.pc = "del_rel", !.exc = "KeyError"])
    /\ UNCHANGED <<size, locks>>

\* self.size.value -= 1 is a get request followed by a set request.
delitem_read(c) ==
    /\ At(c, "del_read")
    /\ Goto(c, [ctx[c] EXCEPT !.pc = "del_write", !.tmp = size])
    /\ UNCHANGED <<buckets, size, locks>>

delitem_write(c) ==
    /\ At(c, "del_write")
    /\ size' = ctx[c].tmp - 1
    /\ Goto(c, [ctx[c] EXCEPT !.pc = "del_rel"])
    /\ UNCHANGED <<buckets, locks>>

delitem_unlock(c) ==
    /\ At(c, "del_rel")
    /\ Release(ctx[c].idx)
    /\ Goto(c, Idle)
    /\ UNCHANGED <<buckets, size>>

\* ----------------------------------------- ParallelHashTable.__contains__

contains_call(c, k) ==
    /\ At(c, "idle")
    /\ Goto(c, [Idle EXCEPT !.pc = "has_acq", !.key = k, !.idx = _hash(k)])
    /\ UNCHANGED <<buckets, size, locks>>

contains_lock(c) ==
    /\ At(c, "has_acq")
    /\ Acquire(c, ctx[c].idx)
    /\ Goto(c, [ctx[c] EXCEPT !.pc = "has_scan"])
    /\ UNCHANGED <<buckets, size>>

\* Mutant of contains_scan: the scan returns True whatever it finds.
contains_scan_true(c) ==
    /\ At(c, "has_scan")
    /\ Goto(c, [ctx[c] EXCEPT !.pc = "has_rel", !.ret = 1])
    /\ UNCHANGED <<buckets, size, locks>>

\* ret is 1 for True and 0 for False.
contains_scan(c) ==
    /\ At(c, "has_scan")
    /\ Goto(c, [ctx[c] EXCEPT !.pc = "has_rel",
                              !.ret = IF IndexOf(buckets[ctx[c].idx], ctx[c].key) > 0
                                      THEN 1 ELSE 0])
    /\ UNCHANGED <<buckets, size, locks>>

contains_unlock(c) ==
    /\ At(c, "has_rel")
    /\ Release(ctx[c].idx)
    /\ Goto(c, Idle)
    /\ UNCHANGED <<buckets, size>>

\* --------------------------------------------- ParallelHashTable.__iter__
\* A generator: the locks are taken when the consumer asks for the first
\* key, every key is handed to the consumer at a `yield`, and the `finally`
\* block runs when the consumer asks for a key after the last one.

iter_call(c) ==
    /\ At(c, "idle")
    /\ Goto(c, [Idle EXCEPT !.pc = "iter_acq"])
    /\ UNCHANGED <<buckets, size, locks>>

\* Mutant of iter_lock: the generator starts yielding once it holds the
\* first lock of the list.
iter_lock_first(c) ==
    /\ At(c, "iter_acq")
    /\ Acquire(c, LockOrder(c)[ctx[c].idx + 1])
    /\ Goto(c, [ctx[c] EXCEPT !.pc = "iter_scan", !.idx = 0, !.pos = 1])
    /\ UNCHANGED <<buckets, size>>

\* idx counts the locks acquired so far.
iter_lock(c) ==
    /\ At(c, "iter_acq")
    /\ Acquire(c, LockOrder(c)[ctx[c].idx + 1])
    /\ Goto(c, IF ctx[c].idx + 1 < Volume
               THEN [ctx[c] EXCEPT !.idx = @ + 1]
               ELSE [ctx[c] EXCEPT !.pc = "iter_scan", !.idx = 0, !.pos = 1])
    /\ UNCHANGED <<buckets, size>>

\* The consumer's next(): the loops run to the next `yield k`, or fall
\* through to the `finally` block.  <<idx, pos>> is the loops' position.
iter_next(c) ==
    /\ At(c, "iter_scan")
    /\ LET cur == NextCursor(buckets, ctx[c].idx, ctx[c].pos) IN
       Goto(c, IF cur[1] < Volume
               THEN [ctx[c] EXCEPT !.idx = cur[1], !.pos = cur[2] + 1,
                                   !.out = Append(@, buckets[cur[1]][cur[2]][1])]
               ELSE [ctx[c] EXCEPT !.pc = "iter_rel", !.idx = 0, !.pos = 1])
    /\ UNCHANGED <<buckets, size, locks>>

\* The finally block; idx counts the locks released so far.
iter_unlock(c) ==
    /\ At(c, "iter_rel")
    /\ Release(LockOrder(c)[ctx[c].idx + 1])
    /\ Goto(c, IF ctx[c].idx + 1 < Volume
               THEN [ctx[c] EXCEPT !.idx = @ + 1]
               ELSE Idle)
    /\ UNCHANGED <<buckets, size>>

\* ---------------------------------------------- ParallelHashTable.__len__

len_call(c) ==
    /\ At(c, "idle")
    /\ Goto(c, [Idle EXCEPT !.pc = "len_ret", !.ret = size])
    /\ UNCHANGED <<buckets, size, locks>>

len_return(c) ==
    /\ At(c, "len_ret")
    /\ Goto(c, Idle)
    /\ UNCHANGED <<buckets, size, locks>>

\* ------------------------------------------------ ParallelHashTable.clear

clear_call(c) ==
    /\ At(c, "idle")
    /\ Goto(c, [Idle EXCEPT !.pc = "clear_acq"])
    /\ UNCHANGED <<buckets, size, locks>>

\* `with self.locks[i]` for the loop's current i (idx).
clear_lock(c) ==
    /\ At(c, "clear_acq")
    /\ Acquire(c, ctx[c].idx)
    /\ Goto(c, [ctx[c] EXCEPT !.pc = "clear_empty"])
    /\ UNCHANGED <<buckets, size>>

clear_empty(c) ==
    /\ At(c, "clear_empty")
    /\ buckets' = [buckets EXCEPT ![ctx[c].idx] = <<>>]
    /\ Goto(c, [ctx[c] EXCEPT !.pc = "clear_rel"])
    /\ UNCHANGED <<size, locks>>

clear_unlock(c) ==
    /\ At(c, "clear_rel")
    /\ Release(ctx[c].idx)
    /\ Goto(c, IF ctx[c].idx + 1 < Volume
               THEN [ctx[c] EXCEPT !.pc = "clear_acq", !.idx = @ + 1]
               ELSE [ctx[c] EXCEPT !.pc = "clear_size"])
    /\ UNCHANGED <<buckets, size>>

\* Mutant of clear_size: the counter is not reset.
clear_size_noreset(c) ==
    /\ At(c, "clear_size")
    /\ Goto(c, Idle)
    /\ UNCHANGED <<buckets, size, locks>>

\* self.size.value = 0, after the loop, holding no lock.
clear_size(c) ==
    /\ At(c, "clear_size")
    /\ size' = 0
    /\ Goto(c, Idle)
    /\ UNCHANGED <<buckets, locks>>

\* ------------------------------------------------------------- HashTable
\* One context, no locks: a call runs from start to end in one step.

NoResult == [op |-> "", key |-> 0, ret |-> 0, exc |-> "", out |-> <<>>]

\* What a scan of the key's bucket finds: <<value>>, or <<>> for no entry.
Lookup(bs, key) ==
    LET b == bs[_hash(key)]
        i == IndexOf(b, key)
    IN IF i > 0 THEN <<b[i][2]>> ELSE <<>>

H_setitem(k, v) ==
    /\ hbuckets' = [hbuckets EXCEPT ![_hash(k)] = Upsert(@, k, v)]
    /\ hsize' = IF IndexOf(hbuckets[_hash(k)], k) > 0 THEN hsize ELSE hsize + 1
    /\ hres' = [NoResult EXCEPT !.op = "set", !.key = k]

H_getitem(k) ==
    /\ hres' = IF Lookup(hbuckets, k) # <<>>
               THEN [NoResult EXCEPT !.op = "get", !.key = k, !.ret = Lookup(hbuckets, k)[1]]
               ELSE [NoResult EXCEPT !.op = "get", !.key = k, !.exc = "KeyError"]
    /\ UNCHANGED <<hbuckets, hsize>>

H_delitem(k) ==
    LET b == _hash(k)
        i == IndexOf(hbuckets[b], k)
    IN IF i > 0
       THEN /\ hbuckets' = [hbuckets EXCEPT ![b] = RemoveAt(@, i)]
            /\ hsize' = hsize - 1
            /\ hres' = [NoResult EXCEPT !.op = "del", !.key = k]
       ELSE /\ hres' = [NoResult EXCEPT !.op = "del", !.key = k, !.exc = "KeyError"]
            /\ UNCHANGED <<hbuckets, hsize>>

H_contains(k) ==
    /\ hres' = [NoResult EXCEPT !.op = "contains", !.key = k,
                                !.ret = IF Lookup(hbuckets, k) # <<>> THEN 1 ELSE 0]
    /\ UNCHANGED <<hbuckets, hsize>>

\* The generator consumed to exhaustion with no call in between.
H_iter ==
    /\ hres' = [NoResult EXCEPT !.op = "iter", !.out = KeysFrom(hbuckets, 0, 1)]
    /\ UNCHANGED <<hbuckets, hsize>>

H_len ==
    /\ hres' = [NoResult EXCEPT !.op = "len", !.ret = hsize]
    /\ UNCHANGED <<hbuckets, hsize>>

RECURSIVE PopAll(_, _)
\* HashTable defines no clear(): MutableMapping.clear calls popitem() until
\* it raises KeyError, and popitem() deletes the first key iteration yields.
PopAll(bs, sz) ==
    LET ks == KeysFrom(bs, 0, 1) IN
    IF ks = <<>> THEN <<bs, sz>>
    ELSE LET b == _hash(ks[1])
             i == IndexOf(bs[b], ks[1])
         IN PopAll([bs EXCEPT ![b] = RemoveAt(@, i)], sz - 1)

H_clear ==
    /\ hbuckets' = PopAll(hbuckets, hsize)[1]
    /\ hsize' = PopAll(hbuckets, hsize)[2]
    /\ hres' = [NoResult EXCEPT !.op = "clear"]

\* ------------------------------------------------------ the steps of a call

Step(c) ==
    \/ setitem_lock(c) \/ setitem_scan(c) \/ setitem_read(c)
    \/ setitem_write(c) \/ setitem_unlock(c)
    \/ getitem_lock(c) \/ getitem_scan(c) \/ getitem_unlock(c)
    \/ delitem_lock(c) \/ delitem_scan(c) \/ delitem_read(c)
    \/ delitem_write(c) \/ delitem_unlock(c)
    \/ contains_lock(c) \/ contains_scan(c) \/ contains_unlock(c)
    \/ iter_lock(c) \/ iter_next(c) \/ iter_unlock(c)
    \/ len_return(c)
    \/ clear_lock(c) \/ clear_empty(c) \/ clear_unlock(c) \/ clear_size(c)

\* A call of a context that runs beside others takes one unit of the budget.
Budget == calls < MaxCalls /\ calls' = calls + 1

\* ParallelHashTable.__init__ and HashTable.__init__ called with volume = v:
\* neither checks v, and range(v) is empty for v <= 0.
Construct(v) ==
    /\ volume = v
    /\ buckets = [b \in 0..(v - 1) |-> <<>>]
    /\ size = 0
    /\ locks = [b \in 0..(v - 1) |-> 0]
    /\ hbuckets = [b \in 0..(v - 1) |-> <<>>]
    /\ hsize = 0

\* Both tables constructed with volume = Volume, no call made yet.
InitTables ==
    /\ Construct(Volume)
    /\ ctx = [c \in Contexts |-> Idle]
    /\ calls = 0
    /\ hres = NoResult
    /\ last = [k \in Keys |-> <<>>]

\* The tables as constructed, no test process started.
Init ==
    /\ InitTables
    /\ worker = [c \in Contexts |-> [target |-> "none", i |-> 0, state |-> "none"]]

\* Any number of contexts, each calling any operation at any time.
Call(c) ==
    \/ \E k \in Keys, v \in Values : setitem_call(c, k, v)
    \/ \E k \in Keys : getitem_call(c, k)
    \/ \E k \in Keys : delitem_call(c, k)
    \/ \E k \in Keys : contains_call(c, k)
    \/ iter_call(c)
    \/ len_call(c)
    \/ clear_call(c)

Next ==
    \E c \in Contexts :
        \/ Call(c) /\ Budget /\ UNCHANGED <<volume, worker, hvars, last>>
        \/ Step(c) /\ UNCHANGED <<volume, calls, worker, hvars, last>>

Spec == Init /\ [][Next]_vars

\* Which lock a call asks for depends on its key only through the key's
\* bucket, and not on the value: every context calls any of the operations
\* that take locks, with one key per bucket and one value.
CallLocking(c) ==
    \/ \E k \in BucketIds : setitem_call(c, k, 1)
    \/ \E k \in BucketIds : getitem_call(c, k)
    \/ \E k \in BucketIds : delitem_call(c, k)
    \/ \E k \in BucketIds : contains_call(c, k)
    \/ iter_call(c)
    \/ clear_call(c)

NextLocks ==
    \E c \in Contexts :
        \/ CallLocking(c) /\ Budget /\ UNCHANGED <<volume, worker, hvars, last>>
        \/ /\ \/ setitem_lock(c) \/ setitem_scan(c) \/ setitem_read(c)
              \/ setitem_write(c) \/ setitem_unlock(c)
              \/ getitem_lock(c) \/ getitem_scan(c) \/ getitem_unlock(c)
              \/ delitem_lock(c) \/ delitem_scan(c) \/ delitem_read(c)
              \/ delitem_write(c) \/ delitem_unlock(c)
              \/ contains_lock(c) \/ contains_scan(c) \/ contains_unlock(c)
              \/ iter_lock(c) \/ iter_next(c) \/ iter_unlock(c)
              \/ clear_lock(c) \/ clear_empty(c) \/ clear_unlock(c) \/ clear_size(c)
           /\ UNCHANGED <<volume, calls, worker, hvars, last>>

SpecLocks == Init /\ [][NextLocks]_vars

\* Context 1 only calls clear(); every other context calls set and delete.
NextClear ==
    \E c \in Contexts :
        \/ /\ c = 1
           /\ clear_call(c)
           /\ Budget /\ UNCHANGED <<volume, worker, hvars, last>>
        \/ /\ c # 1
           /\ \/ \E k \in Keys, v \in Values : setitem_call(c, k, v)
              \/ \E k \in Keys : delitem_call(c, k)
           /\ Budget /\ UNCHANGED <<volume, worker, hvars, last>>
        \/ /\ \/ setitem_lock(c) \/ setitem_scan(c) \/ setitem_read(c)
              \/ setitem_write(c) \/ setitem_unlock(c)
              \/ delitem_lock(c) \/ delitem_scan(c) \/ delitem_read(c)
              \/ delitem_write(c) \/ delitem_unlock(c)
              \/ clear_lock(c) \/ clear_empty(c) \/ clear_unlock(c) \/ clear_size(c)
           /\ UNCHANGED <<volume, calls, worker, hvars, last>>

SpecClear == Init /\ [][NextClear]_vars

\* Every context calls only set and delete.
NextSetDel ==
    \E c \in Contexts :
        \/ /\ \/ \E k \in Keys, v \in Values : setitem_call(c, k, v)
              \/ \E k \in Keys : delitem_call(c, k)
           /\ Budget /\ UNCHANGED <<volume, worker, hvars, last>>
        \/ /\ \/ setitem_lock(c) \/ setitem_scan(c) \/ setitem_read(c)
              \/ setitem_write(c) \/ setitem_unlock(c)
              \/ delitem_lock(c) \/ delitem_scan(c) \/ delitem_read(c)
              \/ delitem_write(c) \/ delitem_unlock(c)
           /\ UNCHANGED <<volume, calls, worker, hvars, last>>

SpecSetDel == Init /\ [][NextSetDel]_vars

\* -------------------------------------------------- the tests' processes

\* f"key_{process_id}_{i}" and f"value_{process_id}_{i}": distinct per (process, i).
WorkerKey(c, i) == (c - 1) * PerWorker + i
WorkerValue(c, i) == 100 * c + i

\* The attributes a ParallelHashTable has: those the class defines and those
\* MutableMapping adds.
Attributes ==
    {"__init__", "_hash", "__setitem__", "__getitem__", "__delitem__",
     "__contains__", "__iter__", "__len__", "clear",
     "volume", "manager", "buckets", "size", "locks",
     "get", "keys", "items", "values", "__eq__", "__ne__",
     "pop", "popitem", "update", "setdefault"}

\* worker_add: one pass of `for i in range(10): ht[key] = value`.
worker_add(c) ==
    /\ worker[c].target = "worker_add" /\ worker[c].state = "running"
    /\ worker[c].i < PerWorker
    /\ setitem_call(c, WorkerKey(c, worker[c].i), WorkerValue(c, worker[c].i))
    /\ worker' = [worker EXCEPT ![c].i = @ + 1]

\* increment_worker: `ht.atomic_increment(counter_key, 1)`; looking up an
\* attribute the object does not have raises AttributeError, which ends the
\* process.
increment_worker(c) ==
    /\ worker[c].target = "increment_worker" /\ worker[c].state = "running"
    /\ At(c, "idle")
    /\ worker[c].i < PerWorker
    /\ "atomic_increment" \notin Attributes
    /\ worker' = [worker EXCEPT ![c].state = "AttributeError"]
    /\ UNCHANGED pvars

\* The target's loop is exhausted: the process exits.
worker_exit(c) ==
    /\ worker[c].state = "running"
    /\ At(c, "idle")
    /\ worker[c].i = PerWorker
    /\ worker' = [worker EXCEPT ![c].state = "exited"]
    /\ UNCHANGED pvars

\* The tests start every Process with the same target.
InitWorkers ==
    /\ InitTables
    /\ \E t \in {"worker_add", "increment_worker"} :
          worker = [c \in Contexts |-> [target |-> t, i |-> 0, state |-> "running"]]

NextWorkers ==
    \E c \in Contexts :
        \/ worker_add(c) /\ UNCHANGED <<volume, calls, hvars, last>>
        \/ increment_worker(c) /\ UNCHANGED <<volume, calls, hvars, last>>
        \/ worker_exit(c) /\ UNCHANGED <<volume, calls, hvars, last>>
        \/ /\ \/ setitem_lock(c) \/ setitem_scan(c) \/ setitem_read(c)
              \/ setitem_write(c) \/ setitem_unlock(c)
           /\ UNCHANGED <<volume, calls, worker, hvars, last>>

SpecWorkers == InitWorkers /\ [][NextWorkers]_vars

\* ------------------------------------------------ one context, both tables
\* Context 1 issues a sequence of calls; each call is made on the HashTable
\* and on the ParallelHashTable, and `last` records what was set.

NextSeq ==
    \/ \E k \in Keys, v \in Values :
          /\ setitem_call(1, k, v) /\ H_setitem(k, v)
          /\ last' = [last EXCEPT ![k] = <<v>>]
          /\ UNCHANGED <<volume, calls, worker>>
    \/ \E k \in Keys :
          /\ getitem_call(1, k) /\ H_getitem(k)
          /\ UNCHANGED <<volume, calls, worker, last>>
    \/ \E k \in Keys :
          /\ delitem_call(1, k) /\ H_delitem(k)
          /\ last' = [last EXCEPT ![k] = <<>>]
          /\ UNCHANGED <<volume, calls, worker>>
    \/ \E k \in Keys :
          /\ contains_call(1, k) /\ H_contains(k)
          /\ UNCHANGED <<volume, calls, worker, last>>
    \/ /\ iter_call(1) /\ H_iter
       /\ UNCHANGED <<volume, calls, worker, last>>
    \/ /\ len_call(1) /\ H_len
       /\ UNCHANGED <<volume, calls, worker, last>>
    \/ /\ clear_call(1) /\ H_clear
       /\ last' = [k \in Keys |-> <<>>]
       /\ UNCHANGED <<volume, calls, worker>>
    \/ Step(1) /\ UNCHANGED <<volume, calls, worker, hvars, last>>

SpecSeq == Init /\ [][NextSeq]_vars

\* ------------------------------------------------------------ construction
\* The constructor is given a non-positive volume or Volume; a table that
\* was given Volume is then used by one context as in NextSeq.  (A call on
\* a table of volume 0 ends in ZeroDivisionError at `% self.volume`, on one
\* of negative volume in IndexError at `self.locks[index]`.)

VolumeArgs == ((0 - 1)..0) \cup {Volume}

InitConstruct ==
    /\ \E v \in VolumeArgs : Construct(v)
    /\ ctx = [c \in Contexts |-> Idle]
    /\ calls = 0
    /\ hres = NoResult
    /\ last = [k \in Keys |-> <<>>]
    /\ worker = [c \in Contexts |-> [target |-> "none", i |-> 0, state |-> "none"]]

NextConstruct == volume = Volume /\ NextSeq

SpecConstruct == InitConstruct /\ [][NextConstruct]_vars

\* ------------------------------------------------------------ predicates

\* No context is inside a call.
Quiescent == \A c \in Contexts : At(c, "idle")

\* The locks a context holds.
Held(c) == {i \in BucketIds : locks[i] = c}

AcquirePcs == {"set_acq", "get_acq", "del_acq", "has_acq", "iter_acq", "clear_acq"}

\* The lock a context at an acquisition is asking for.
Wanted(c) ==
    IF At(c, "iter_acq") THEN LockOrder(c)[ctx[c].idx + 1] ELSE ctx[c].idx

\* The other contexts that hold the lock c is waiting for.
BlockedBy(c) ==
    IF ctx[c].pc \in AcquirePcs /\ locks[Wanted(c)] # 0 /\ locks[Wanted(c)] # c
    THEN {locks[Wanted(c)]}
    ELSE {}

RECURSIVE Chain(_, _)
\* The contexts reached from those of S by following BlockedBy up to n times.
Chain(S, n) ==
    IF n = 0 THEN S
    ELSE Chain(S \cup UNION {BlockedBy(d) : d \in S}, n - 1)

\* c waits, directly or through others, for a lock that is held by a
\* context waiting for c.
InWaitCycle(c) == c \in Chain(BlockedBy(c), NumContexts)

\* ----------------------------------------------------------------- claims

\* The keys with an entry in a bucket array.
KeysIn(bs) == {bs[b][i][1] : <<b, i>> \in {p \in BucketIds \X (1..NumKeys) : p[2] <= Len(bs[p[1]])}}

\* The keys set and not deleted or cleared since.
Present == {k \in Keys : last[k] # <<>>}

AllWorkers(t) == \A c \in Contexts : worker[c].target = t

\* C1: when every context has run worker_add (sets of keys distinct across
\* the contexts) to its end, length() is the total number of keys and every
\* key is retrievable with the value set for it.
C1_NoLostUpdates ==
    (AllWorkers("worker_add") /\ \A c \in Contexts : worker[c].state = "exited") =>
        /\ size = NumContexts * PerWorker
        /\ \A c \in Contexts : \A i \in 0..(PerWorker - 1) :
              Lookup(buckets, WorkerKey(c, i)) = <<WorkerValue(c, i)>>

CounterKey == 0

\* C3: when every context has run increment_worker (PerWorker calls of
\* atomic_increment(counter_key, 1)) and the processes have ended, the
\* entry's value is NumContexts * PerWorker.
C3_AtomicIncrementTotal ==
    (AllWorkers("increment_worker") /\ \A c \in Contexts : worker[c].state # "running") =>
        Lookup(buckets, CounterKey) = <<NumContexts * PerWorker>>

\* C9: in single-context use, whenever no call is in progress length() of
\* either table is the number of distinct keys present: the keys set and
\* not deleted or cleared since (+1 for a new key, unchanged for an
\* overwrite, -1 for a delete, 0 after clear), which are the keys stored.
C9_SequentialLength ==
    /\ hsize = Cardinality(Present)
    /\ KeysIn(hbuckets) = Present
    /\ hres.op = "len" => hres.ret = Cardinality(Present)
    /\ At(1, "idle") => size = Cardinality(Present) /\ KeysIn(buckets) = Present
    /\ At(1, "len_ret") => ctx[1].ret = Cardinality(Present)

\* C9 witness: a delete that found its key is about to return while other
\* keys remain, on both tables.
C9_Witness ==
    /\ At(1, "del_rel") /\ ctx[1].exc = ""
    /\ size >= 1 /\ hsize = size
    /\ hres.op = "del" /\ hres.exc = ""

\* C10: in single-context use, get(key) returns the value of the latest
\* set(key, value) for every key set and not deleted or cleared since, on
\* either table.
C10_ReadYourWrites ==
    /\ \A k \in Present : Lookup(hbuckets, k) = last[k]
    /\ (hres.op = "get" /\ hres.key \in Present) =>
          hres.exc = "" /\ <<hres.ret>> = last[hres.key]
    /\ At(1, "idle") => \A k \in Present : Lookup(buckets, k) = last[k]
    /\ (At(1, "get_rel") /\ ctx[1].key \in Present) =>
          ctx[1].exc = "" /\ <<ctx[1].ret>> = last[ctx[1].key]

\* C10 witness: a get is about to return the value of a key that is not the
\* first entry of its bucket, and the HashTable's get returned the same.
C10_Witness ==
    /\ At(1, "get_rel") /\ ctx[1].exc = ""
    /\ IndexOf(buckets[ctx[1].idx], ctx[1].key) >= 2
    /\ <<ctx[1].ret>> = last[ctx[1].key]
    /\ hres.op = "get" /\ hres.ret = ctx[1].ret

\* C2: whenever no context is inside a set or delete call (contexts calling
\* only set and delete, in any interleaving), the counter length() returns
\* equals the sum of the lengths of all buckets.
C2_CounterEqualsSumOfLengths ==
    Quiescent => size = SumLen(buckets, 0)

\* C4: no reachable state has a cycle of contexts each waiting for a bucket
\* lock that another context of the cycle holds, whatever the contexts call
\* (set, get, delete, contains, iterate to exhaustion, clear, length).
C4_NoWaitCycle ==
    \A c \in Contexts : ~InWaitCycle(c)

\* C4 witness: two iterations run at once, one of them holding locks and the
\* other blocked on a lock the first holds.
C4_Witness ==
    \E c, d \in Contexts :
        /\ c # d
        /\ At(c, "iter_acq")
        /\ ctx[d].pc \in {"iter_acq", "iter_scan"}
        /\ d \in BlockedBy(c)

\* C5: once the consumer of iterate() has received a key, and until the
\* iteration ends, the iterating context holds no bucket lock.
C5_NoLockWhileConsuming ==
    \A c \in Contexts :
        (At(c, "iter_scan") /\ Len(ctx[c].out) >= 1) => Held(c) = {}

\* clear() is between emptying its first bucket and resetting the counter.
ClearMutating(c) ==
    \/ ctx[c].pc \in {"clear_rel", "clear_size"}
    \/ ctx[c].pc \in {"clear_acq", "clear_empty"} /\ ctx[c].idx > 0

ScanPcs == {"set_scan", "get_scan", "del_scan", "has_scan"}

\* C6: from before clear() empties its first bucket until it has reset the
\* counter it holds every bucket lock, and in that span no set, get, delete
\* or contains of another context performs its scan of a bucket.
C6_ClearHoldsAllLocks ==
    /\ [](\A c \in Contexts :
            (At(c, "clear_empty") \/ ClearMutating(c)) => Held(c) = BucketIds)
    /\ [][\A c \in Contexts :
            ClearMutating(c) =>
                \A d \in Contexts \ {c} :
                    ~(ctx[d].pc \in ScanPcs /\ ctx'[d].pc # ctx[d].pc)]_vars

\* C7: with one context calling clear() and the others calling set and
\* delete, once every call has returned length() equals the number of
\* entries stored in the buckets.
C7_CounterConsistentAfterClear ==
    (calls > 0 /\ Quiescent) => size = SumLen(buckets, 0)

\* C8: length() is never negative.
C8_LengthNonNegative ==
    size >= 0 /\ \A c \in Contexts : At(c, "len_ret") => ctx[c].ret >= 0

\* C13: a table exists only for a positive volume (a non-positive volume is
\* rejected at construction), and a table just constructed is empty with
\* length() == 0, for both tables.
C13_VolumeValidated ==
    /\ volume > 0
    /\ (calls = 0 /\ Quiescent /\ hres = NoResult) =>
          /\ size = 0 /\ hsize = 0
          /\ \A b \in DOMAIN buckets : buckets[b] = <<>> /\ hbuckets[b] = <<>>

\* The context whose step this is: a step changes one context's record.
StepOf(c) == ctx'[c] # ctx[c]

\* C11: in single-context use of either table, get(key) and delete(key)
\* end in KeyError exactly when the key is not present (never set, or
\* deleted or cleared since its last set).  For delete, `last` is updated
\* when the call starts, so the HashTable's result, checked against `last`
\* at that step, is what the ParallelHashTable's result is compared with.
C11_KeyErrorWhenAbsent ==
    /\ [](At(1, "get_rel") => (ctx[1].exc = "KeyError" <=> ctx[1].key \notin Present))
    /\ [](hres.op = "get" => (hres.exc = "KeyError" <=> hres.key \notin Present))
    /\ [][(At(1, "idle") /\ ctx'[1].pc = "del_acq") =>
             (hres'.exc = "KeyError" <=> ctx'[1].key \notin Present)]_vars
    /\ [](At(1, "del_rel") =>
             hres.op = "del" /\ hres.key = ctx[1].key /\ ctx[1].exc = hres.exc)

\* C11 witness: a get of an absent key is about to fail although the key's
\* bucket holds other entries, the HashTable's get having failed too.
C11_Witness ==
    /\ At(1, "get_rel") /\ ctx[1].exc = "KeyError"
    /\ Len(buckets[ctx[1].idx]) >= 1
    /\ hres.op = "get" /\ hres.exc = "KeyError"

\* C12: no step of a get, and no step of a delete that ends in KeyError,
\* changes a bucket or the counter, and when the failed call returns the
\* context holds no lock and the key's bucket lock is free.
C12_FailureAtomic ==
    [][\A c \in Contexts :
          (/\ StepOf(c)
           /\ \/ ctx[c].exc = "KeyError" \/ ctx'[c].exc = "KeyError"
              \/ ctx[c].pc \in {"get_acq", "get_scan", "get_rel", "del_acq"}) =>
             /\ buckets' = buckets /\ size' = size
             /\ ctx'[c].pc = "idle" =>
                   /\ \A i \in BucketIds : locks'[i] # c
                   /\ locks'[ctx[c].idx] = 0]_vars

\* C12 witness: a delete that found nothing is about to leave the lock and
\* raise, on a table that holds entries.
C12_Witness ==
    \E c \in Contexts :
        /\ At(c, "del_rel") /\ ctx[c].exc = "KeyError"
        /\ SumLen(buckets, 0) >= 1 /\ size >= 1

\* C15: in single-context use, when clear() returns every bucket of the
\* table is empty and length() == 0, and a contains(key) made while nothing
\* has been set since returns false, on either table.
C15_ClearEmptiesTable ==
    /\ [][(At(1, "clear_size") /\ ctx'[1].pc = "idle") =>
             /\ size' = 0 /\ hsize' = 0
             /\ \A b \in BucketIds : buckets'[b] = <<>> /\ hbuckets'[b] = <<>>]_vars
    /\ []((At(1, "has_rel") /\ Present = {}) => ctx[1].ret = 0)
    /\ []((hres.op = "contains" /\ Present = {}) => hres.ret = 0)

\* C15 witness: clear() has emptied a table that held at least two entries
\* and is about to reset the counter.
C15_Witness ==
    /\ At(1, "clear_size") /\ size >= 2
    /\ \A b \in BucketIds : buckets[b] = <<>>

\* C16: a set or delete of key k changes the entry of k only: what a scan
\* finds for every other key, in the same bucket or another, is the same
\* after the step that changes the bucket as before, on either table.
C16_OtherKeysUntouched ==
    [][/\ \A c \in Contexts :
             (StepOf(c) /\ ctx[c].pc \in {"set_scan", "del_scan"}) =>
                \A k \in Keys \ {ctx[c].key} : Lookup(buckets', k) = Lookup(buckets, k)
       /\ (hres' # hres /\ hres'.op \in {"set", "del"}) =>
             \A k \in Keys \ {hres'.key} : Lookup(hbuckets', k) = Lookup(hbuckets, k)]_vars

\* C16 witness: a delete has removed its key from a bucket that still holds
\* a colliding key.
C16_Witness ==
    /\ At(1, "del_read")
    /\ Len(buckets[ctx[1].idx]) >= 1

\* ------------------------------------------- iterate on a quiescent table
\* Contexts call set and delete beside each other; iterate() is called only
\* when no call is in progress, and no call starts until it has returned.

IterPcs == {"iter_acq", "iter_scan", "iter_rel"}

NextQuiet ==
    \E c \in Contexts :
        \/ /\ \A d \in Contexts : ctx[d].pc \notin IterPcs
           /\ \/ \E k \in Keys, v \in Values : setitem_call(c, k, v)
              \/ \E k \in Keys : delitem_call(c, k)
           /\ Budget /\ UNCHANGED <<volume, worker, hvars, last>>
        \/ /\ Quiescent
           /\ iter_call(c)
           /\ Budget /\ UNCHANGED <<volume, worker, hvars, last>>
        \/ /\ \/ setitem_lock(c) \/ setitem_scan(c) \/ setitem_read(c)
              \/ setitem_write(c) \/ setitem_unlock(c)
              \/ delitem_lock(c) \/ delitem_scan(c) \/ delitem_read(c)
              \/ delitem_write(c) \/ delitem_unlock(c)
              \/ iter_lock(c) \/ iter_next(c) \/ iter_unlock(c)
           /\ UNCHANGED <<volume, calls, worker, hvars, last>>

SpecQuiet == Init /\ [][NextQuiet]_vars

\* C14: an iterate() run to exhaustion on a quiescent table has yielded
\* every key stored, no other key, no key twice, and as many keys as
\* length() returns (the counter, which nothing changes meanwhile).
C14_IterateYieldsPresentKeys ==
    \A c \in Contexts :
        At(c, "iter_rel") =>
            LET out == ctx[c].out IN
            /\ {out[n] : n \in DOMAIN out} = KeysIn(buckets)
            /\ \A m, n \in DOMAIN out : m # n => out[m] # out[n]
            /\ Len(out) = size

\* --------------------------------------------------- critical sections

\* Context c is inside a section of code guarded by lock i: between the
\* acquisition of lock i and its release, by the position in the code.
InCS(c, i) ==
    \/ /\ ctx[c].pc \in {"set_scan", "set_read", "set_write", "set_rel",
                         "get_scan", "get_rel",
                         "del_scan", "del_read", "del_write", "del_rel",
                         "has_scan", "has_rel", "clear_empty", "clear_rel"}
       /\ ctx[c].idx = i
    \/ At(c, "iter_scan")
    \/ At(c, "iter_acq") /\ \E n \in 1..ctx[c].idx : LockOrder(c)[n] = i
    \/ At(c, "iter_rel") /\ \E n \in (ctx[c].idx + 1)..Volume : LockOrder(c)[n] = i

\* C17: for every bucket i at most one context is inside a critical section
\* guarded by lock i, and that context is the holder of lock i.
C17_BucketMutualExclusion ==
    \A i \in BucketIds :
        \A c, d \in Contexts :
            InCS(c, i) => /\ locks[i] = c
                          /\ InCS(d, i) => c = d

\* C17 witness: one context is scanning bucket i under its lock while
\* another waits to acquire the same lock.
C17_Witness ==
    \E c, d \in Contexts :
        /\ c # d
        /\ At(c, "set_scan") /\ InCS(c, ctx[c].idx)
        /\ ctx[d].pc \in {"set_acq", "get_acq", "del_acq", "has_acq", "clear_acq"}
        /\ ctx[d].idx = ctx[c].idx

\* C18: a context that has read the counter and not yet written it back
\* (set_write, del_write) excludes every other writer of the counter: no
\* other context is between its own read and write, or about to reset the
\* counter in clear().
C18_CounterWritesExcluded ==
    \A c, d \in Contexts :
        (c # d /\ ctx[c].pc \in {"set_write", "del_write"}) =>
            ctx[d].pc \notin {"set_write", "del_write", "clear_size"}

\* -------------------------------- two single-key calls, different buckets

\* The bucket b of a table on which one context has called set(k, 1) for
\* the keys of S in ascending order.
PreloadBucket(S, b) ==
    SelectSeq([n \in 1..NumKeys |-> <<n - 1, 1>>],
              LAMBDA e : e[1] \in S /\ hash(e[1]) % Volume = b)

InitPair ==
    \E S \in SUBSET Keys :
        /\ volume = Volume
        /\ buckets = [b \in BucketIds |-> PreloadBucket(S, b)]
        /\ size = Cardinality(S)
        /\ locks = [b \in BucketIds |-> 0]
        /\ hbuckets = [b \in BucketIds |-> PreloadBucket(S, b)]
        /\ hsize = Cardinality(S)
        /\ ctx = [c \in Contexts |-> Idle]
        /\ calls = 0
        /\ hres = NoResult
        /\ last = [k \in Keys |-> IF k \in S THEN <<1>> ELSE <<>>]
        /\ worker = [c \in Contexts |-> [target |-> "single_key", i |-> 0, state |-> "running"]]

\* Two contexts make one single-key call each, the second on a key of
\* another bucket than the first.  Each call is made on the HashTable at
\* the moment it starts, which runs the two calls one after the other.
PairCall(c) ==
    /\ worker[c].i = 0 /\ calls < 2
    /\ \E k \in Keys :
          /\ calls = 1 => _hash(k) # _hash(hres.key)
          /\ \/ \E v \in Values : /\ setitem_call(c, k, v) /\ H_setitem(k, v)
                                  /\ last' = [last EXCEPT ![k] = <<v>>]
             \/ getitem_call(c, k) /\ H_getitem(k) /\ UNCHANGED last
             \/ /\ delitem_call(c, k) /\ H_delitem(k)
                /\ last' = [last EXCEPT ![k] = <<>>]
             \/ contains_call(c, k) /\ H_contains(k) /\ UNCHANGED last
    /\ calls' = calls + 1
    /\ worker' = [worker EXCEPT ![c].i = 1]
    /\ UNCHANGED volume

NextPair ==
    \E c \in Contexts :
        \/ PairCall(c)
        \/ /\ \/ setitem_lock(c) \/ setitem_scan(c) \/ setitem_read(c)
              \/ setitem_write(c) \/ setitem_unlock(c)
              \/ getitem_lock(c) \/ getitem_scan(c) \/ getitem_unlock(c)
              \/ delitem_lock(c) \/ delitem_scan(c) \/ delitem_read(c)
              \/ delitem_write(c) \/ delitem_unlock(c)
              \/ contains_lock(c) \/ contains_scan(c) \/ contains_unlock(c)
           /\ UNCHANGED <<volume, calls, worker, hvars, last>>

SpecPair == InitPair /\ [][NextPair]_vars

\* C19: two single-key calls of different contexts on keys of different
\* buckets never wait for each other's lock, return what the same calls
\* return when run one after the other, and leave buckets and counter as
\* the two calls run one after the other leave them.
C19_DisjointBucketsSerial ==
    /\ \A c \in Contexts :
          ctx[c].pc \in {"set_acq", "get_acq", "del_acq", "has_acq"} =>
              locks[ctx[c].idx] = 0
    /\ \A c \in Contexts :
          /\ At(c, "get_rel") =>
                LET f == Lookup(hbuckets, ctx[c].key) IN
                IF f = <<>> THEN ctx[c].exc = "KeyError"
                ELSE ctx[c].exc = "" /\ ctx[c].ret = f[1]
          /\ At(c, "has_rel") =>
                ctx[c].ret = (IF Lookup(hbuckets, ctx[c].key) # <<>> THEN 1 ELSE 0)
          /\ (At(c, "del_rel") /\ hres.op = "del" /\ hres.key = ctx[c].key) =>
                ctx[c].exc = hres.exc
    /\ (calls = 2 /\ Quiescent) => buckets = hbuckets /\ size = hsize

\* ------------------------------------------------ iterate beside others

\* C20: from the moment an iterate() holds every bucket lock until it
\* starts releasing them, no other context is inside a critical section
\* of any bucket, no bucket changes, and the keys yielded so far followed
\* by those still to come are the keys stored, in the loops' order.
C20_IterateExcludesOthers ==
    /\ [](\A c \in Contexts :
            /\ At(c, "iter_scan") =>
                  /\ Held(c) = BucketIds
                  /\ \A d \in Contexts \ {c} : \A i \in BucketIds : ~InCS(d, i)
                  /\ ctx[c].out \o KeysFrom(buckets, ctx[c].idx, ctx[c].pos)
                        = KeysFrom(buckets, 0, 1)
            /\ (At(c, "iter_rel") /\ ctx[c].idx = 0) =>
                  /\ Held(c) = BucketIds
                  /\ ctx[c].out = KeysFrom(buckets, 0, 1))
    /\ [][(\E c \in Contexts : At(c, "iter_scan")) => buckets' = buckets]_vars

\* C20 witness: an iterate() has yielded a key while another context waits
\* at the lock of a single-key call.
C20_Witness ==
    \E c, d \in Contexts :
        /\ At(c, "iter_scan") /\ Len(ctx[c].out) >= 1
        /\ ctx[d].pc \in {"set_acq", "get_acq", "del_acq", "has_acq"}
        /\ locks[ctx[d].idx] = c

\* ------------------------------------------------------ lock discipline

\* C21: a context that is in no call holds no bucket lock (so none is held
\* after a set, get, delete or contains has returned or raised), and a lock
\* is held by a context only while the context is inside the section of an
\* operation that the lock of that bucket guards.
C21_ScopedLockRelease ==
    \A c \in Contexts :
        /\ At(c, "idle") => Held(c) = {}
        /\ \A i \in BucketIds : locks[i] = c => InCS(c, i)

\* C21 witness: a get that found nothing is about to release its bucket's
\* lock and raise, while another context waits for that lock.
C21_Witness ==
    \E c, d \in Contexts :
        /\ At(c, "get_rel") /\ ctx[c].exc = "KeyError" /\ locks[ctx[c].idx] = c
        /\ ctx[d].pc \in {"set_acq", "get_acq", "del_acq", "has_acq"}
        /\ ctx[d].idx = ctx[c].idx

\* C23: every step that changes the contents of bucket i is a step of the
\* context that holds lock i.
C23_MutationUnderLock ==
    [][\A i \in BucketIds :
          buckets'[i] # buckets[i] =>
              \E c \in Contexts : locks[i] = c /\ StepOf(c)]_vars

\* C23 witness: a delete has removed an entry from its bucket while holding
\* the bucket's lock, and another context is inside another bucket's section.
C23_Witness ==
    \E c, d \in Contexts :
        /\ c # d
        /\ At(c, "del_read") /\ locks[ctx[c].idx] = c
        /\ \E i \in BucketIds \ {ctx[c].idx} : InCS(d, i)

\* No two entries of a bucket of bs have the same key.
NoDuplicateKeys(bs) ==
    \A b \in DOMAIN bs :
        \A m, n \in DOMAIN bs[b] : m # n => bs[b][m][1] # bs[b][n][1]

\* C24: whatever set, delete and clear calls the contexts interleave, no
\* bucket holds two entries with the same key.
C24_BucketKeysUnique ==
    NoDuplicateKeys(buckets) /\ NoDuplicateKeys(hbuckets)

\* C24 witness: a set of a key has finished its scan of a bucket that holds
\* the key while another context waits to set the same key.
C24_Witness ==
    \E c, d \in Contexts :
        /\ c # d
        /\ At(c, "set_rel") /\ IndexOf(buckets[ctx[c].idx], ctx[c].key) > 0
        /\ At(d, "set_acq") /\ ctx[d].key = ctx[c].key

\* --------------------------------------- self-use while iterating
\* The consumer of an iteration, between two next() calls, calls a
\* single-key operation on the same table, as `for k in ht: ht[k]` and the
\* inherited items() and values() do.  The generator stays suspended at its
\* yield: its cursor <<idx, pos>>, its output and its locks are kept.

SelfAcqPcs == {"self_set_acq", "self_get_acq", "self_del_acq", "self_has_acq"}

SelfCsPcs == {"self_set_cs", "self_get_cs", "self_del_cs", "self_has_cs"}

\* The position inside the `with` block of the operation waiting at pc.
SelfCs(pc) ==
    CASE pc = "self_set_acq" -> "self_set_cs"
      [] pc = "self_get_acq" -> "self_get_cs"
      [] pc = "self_del_acq" -> "self_del_cs"
      [] pc = "self_has_acq" -> "self_has_cs"

\* index = self._hash(key), then `with self.locks[index]` is reached.
self_call(c, op, k, v) ==
    /\ At(c, "iter_scan") /\ Len(ctx[c].out) >= 1
    /\ op \in SelfAcqPcs
    /\ Goto(c, [ctx[c] EXCEPT !.pc = op, !.key = k, !.val = v, !.ret = 0, !.exc = ""])
    /\ UNCHANGED <<buckets, size, locks>>

\* `with self.locks[index]`: manager.Lock() is not reentrant, the acquire
\* blocks while the lock is held, whoever holds it.
self_lock(c) ==
    /\ ctx[c].pc \in SelfAcqPcs
    /\ Acquire(c, _hash(ctx[c].key))
    /\ Goto(c, [ctx[c] EXCEPT !.pc = SelfCs(@)])
    /\ UNCHANGED <<buckets, size>>

\* The body of the operation and the release of its lock, in one step: the
\* context holds every bucket lock, so no other context is inside a bucket.
\* The result is left in ret / exc and the consumer goes on with the
\* iteration.
self_body(c) ==
    /\ ctx[c].pc \in SelfCsPcs
    /\ LET k == ctx[c].key
           b == _hash(k)
           i == IndexOf(buckets[b], k)
       IN /\ CASE At(c, "self_set_cs") ->
                    /\ buckets' = [buckets EXCEPT ![b] = Upsert(@, k, ctx[c].val)]
                    /\ size' = IF i > 0 THEN size ELSE size + 1
                    /\ Goto(c, [ctx[c] EXCEPT !.pc = "iter_scan"])
               [] At(c, "self_get_cs") ->
                    /\ UNCHANGED <<buckets, size>>
                    /\ Goto(c, IF i > 0
                               THEN [ctx[c] EXCEPT !.pc = "iter_scan", !.ret = buckets[b][i][2]]
                               ELSE [ctx[c] EXCEPT !.pc = "iter_scan", !.exc = "KeyError"])
               [] At(c, "self_del_cs") ->
                    IF i > 0
                    THEN /\ buckets' = [buckets EXCEPT ![b] = RemoveAt(@, i)]
                         /\ size' = size - 1
                         /\ Goto(c, [ctx[c] EXCEPT !.pc = "iter_scan"])
                    ELSE /\ UNCHANGED <<buckets, size>>
                         /\ Goto(c, [ctx[c] EXCEPT !.pc = "iter_scan", !.exc = "KeyError"])
               [] At(c, "self_has_cs") ->
                    /\ UNCHANGED <<buckets, size>>
                    /\ Goto(c, [ctx[c] EXCEPT !.pc = "iter_scan",
                                              !.ret = IF i > 0 THEN 1 ELSE 0])
          /\ Release(b)

\* Contexts iterate, call single-key operations and clear() from outside an
\* iteration (set, delete and clear within the call budget), and call
\* single-key operations from inside their own iteration.
NextSelf ==
    \E c \in Contexts :
        \/ /\ \/ \E k \in BucketIds : setitem_call(c, k, 1)
              \/ \E k \in BucketIds : delitem_call(c, k)
              \/ clear_call(c)
           /\ Budget /\ UNCHANGED <<volume, worker, hvars, last>>
        \/ /\ \/ \E k \in BucketIds : getitem_call(c, k)
              \/ \E k \in BucketIds : contains_call(c, k)
              \/ iter_call(c)
              \/ len_call(c)
              \/ \E op \in SelfAcqPcs, k \in BucketIds : self_call(c, op, k, 1)
           /\ UNCHANGED <<volume, calls, worker, hvars, last>>
        \/ /\ Step(c) \/ self_lock(c) \/ self_body(c)
           /\ UNCHANGED <<volume, calls, worker, hvars, last>>

SpecSelf == Init /\ [][NextSelf]_vars

\* C30: a context that calls get, set, delete or contains from inside its
\* own iteration is not kept waiting by a lock that the iteration holds.
C30_SelfUseNotBlocked ==
    \A c \in Contexts :
        ctx[c].pc \in SelfAcqPcs => locks[_hash(ctx[c].key)] # c

\* The lock a context that waits at an acquisition is asking for.
Requested(c) ==
    IF ctx[c].pc \in SelfAcqPcs THEN _hash(ctx[c].key) ELSE Wanted(c)

\* C22: a context that waits for lock j while it holds lock i has j > i:
\* locks are requested in ascending bucket index only.
C22_AscendingLockOrder ==
    \A c \in Contexts :
        ctx[c].pc \in AcquirePcs \cup SelfAcqPcs =>
            \A i \in Held(c) : Requested(c) > i

\* ---------------------------------------------------------- progress

\* A lock is granted to context c.
Grant(c) ==
    /\ \/ setitem_lock(c) \/ getitem_lock(c) \/ delitem_lock(c)
       \/ contains_lock(c) \/ iter_lock(c) \/ clear_lock(c) \/ self_lock(c)
    /\ UNCHANGED <<volume, calls, worker, hvars, last>>

\* Context c takes a step that waits for nothing; for an iteration, the
\* consumer asks for the next key.
Run(c) ==
    /\ \/ setitem_scan(c) \/ setitem_read(c) \/ setitem_write(c) \/ setitem_unlock(c)
       \/ getitem_scan(c) \/ getitem_unlock(c)
       \/ delitem_scan(c) \/ delitem_read(c) \/ delitem_write(c) \/ delitem_unlock(c)
       \/ contains_scan(c) \/ contains_unlock(c)
       \/ iter_next(c) \/ iter_unlock(c)
       \/ len_return(c)
       \/ clear_empty(c) \/ clear_unlock(c) \/ clear_size(c)
       \/ self_body(c)
    /\ UNCHANGED <<volume, calls, worker, hvars, last>>

\* No context stops inside a call, and a lock that is free again and again
\* is eventually granted to a context that waits for it.
Fairness == \A c \in Contexts : WF_vars(Run(c)) /\ SF_vars(Grant(c))

SpecSelfFair == SpecSelf /\ Fairness

\* The positions of a context inside a set, get, delete, contains or clear.
CallPcs ==
    {"set_acq", "set_scan", "set_read", "set_write", "set_rel",
     "get_acq", "get_scan", "get_rel",
     "del_acq", "del_scan", "del_read", "del_write", "del_rel",
     "has_acq", "has_scan", "has_rel",
     "clear_acq", "clear_empty", "clear_rel", "clear_size"}
       \cup SelfAcqPcs \cup SelfCsPcs

\* C29: under fair scheduling and fair lock grants every set, get, delete,
\* contains and clear call a context has started returns: the context is
\* eventually in no call again, or back in its iteration for a call made
\* from inside it.
C29_CallsReturn ==
    \A c \in Contexts :
        (ctx[c].pc \in CallPcs) ~> (ctx[c].pc \in {"idle", "iter_scan"})

\* ------------------------------------------------ addressing and frames

\* C25: the bucket index of every key is defined and lies in 0..volume-1,
\* and every entry of either table is stored in the bucket whose number is
\* the bucket index of its key.
C25_Addressing ==
    /\ \A k \in Keys : volume # 0 /\ 0 <= _hash(k) /\ _hash(k) < volume
    /\ \A b \in DOMAIN buckets :
          \A n \in DOMAIN buckets[b] : _hash(buckets[b][n][1]) = b
    /\ \A b \in DOMAIN hbuckets :
          \A n \in DOMAIN hbuckets[b] : _hash(hbuckets[b][n][1]) = b

\* C26: one context makes the same calls on both tables: what each call of
\* the ParallelHashTable returns or raises is what the HashTable's call did
\* (value, boolean, KeyError, sequence of keys, length), and whenever the
\* context is in no call the buckets and counters of the two are equal.
C26_SingleContextEquivalence ==
    /\ At(1, "idle") => buckets = hbuckets /\ size = hsize
    /\ At(1, "set_rel") => hres.op = "set" /\ hres.key = ctx[1].key
    /\ At(1, "get_rel") =>
          /\ hres.op = "get" /\ hres.key = ctx[1].key
          /\ ctx[1].ret = hres.ret /\ ctx[1].exc = hres.exc
    /\ At(1, "del_rel") =>
          /\ hres.op = "del" /\ hres.key = ctx[1].key
          /\ ctx[1].exc = hres.exc
    /\ At(1, "has_rel") =>
          /\ hres.op = "contains" /\ hres.key = ctx[1].key
          /\ ctx[1].ret = hres.ret
    /\ At(1, "iter_rel") => hres.op = "iter" /\ ctx[1].out = hres.out
    /\ At(1, "len_ret") => hres.op = "len" /\ ctx[1].ret = hres.ret

\* C26 witness: an iteration of the ParallelHashTable has yielded two keys,
\* the sequence the HashTable's iteration gave, and a get is possible next.
C26_Witness ==
    /\ At(1, "iter_rel") /\ Len(ctx[1].out) >= 2
    /\ hres.op = "iter" /\ hres.out = ctx[1].out

\* The keys of bucket b of bs in chain order.
ChainKeys(bs, b) == [n \in DOMAIN bs[b] |-> bs[b][n][1]]

RECURSIVE BucketThenChain(_, _)
\* The chains of buckets b, b+1, ... of bs, one after the other.
BucketThenChain(bs, b) ==
    IF b >= Volume THEN <<>> ELSE ChainKeys(bs, b) \o BucketThenChain(bs, b + 1)

\* C27: an iteration yields the chains of the buckets in ascending bucket
\* index, each in chain order; a set of a key the bucket holds replaces the
\* value at the entry's position and changes neither the chain's keys, its
\* length nor the counter, and a set of a new key appends it to the chain.
C27_IterationOrder ==
    /\ [](/\ At(1, "iter_rel") => ctx[1].out = BucketThenChain(buckets, 0)
          /\ hres.op = "iter" => hres.out = BucketThenChain(hbuckets, 0))
    /\ [][/\ (StepOf(1) /\ At(1, "set_scan")) =>
               LET b == ctx[1].idx
                   i == IndexOf(buckets[b], ctx[1].key)
               IN IF i > 0
                  THEN /\ buckets' = [buckets EXCEPT ![b][i] = <<ctx[1].key, ctx[1].val>>]
                       /\ ChainKeys(buckets', b) = ChainKeys(buckets, b)
                       /\ ctx'[1].pc = "set_rel"
                  ELSE ChainKeys(buckets', b) = Append(ChainKeys(buckets, b), ctx[1].key)
          /\ (At(1, "idle") /\ ctx'[1].pc = "set_acq") =>
               LET k == ctx'[1].key
                   b == _hash(k)
                   i == IndexOf(hbuckets[b], k)
               IN IF i > 0
                  THEN /\ hbuckets' = [hbuckets EXCEPT ![b][i] = <<k, ctx'[1].val>>]
                       /\ hsize' = hsize
                  ELSE ChainKeys(hbuckets', b) = Append(ChainKeys(hbuckets, b), k)
          /\ (StepOf(1) /\ ctx[1].pc \in {"set_scan", "set_rel"}
                /\ ctx'[1].pc \in {"set_rel", "idle"}) => size' = size]_vars

\* C27 witness: a set has overwritten the first entry of a chain of two or
\* more, which is still the first.
C27_Witness ==
    /\ At(1, "set_rel") /\ Len(buckets[ctx[1].idx]) >= 2
    /\ buckets[ctx[1].idx][1] = <<ctx[1].key, ctx[1].val>>
    /\ last[ctx[1].key] = <<ctx[1].val>>

\* The positions of a context inside get, contains, iterate and length.
ReadPcs ==
    {"get_acq", "get_scan", "get_rel", "has_acq", "has_scan", "has_rel",
     "iter_acq", "iter_scan", "iter_rel", "len_ret"}

\* C28: no step of a get, contains, length or iterate changes a bucket or
\* the counter of either table, volume never changes, and each table has
\* as many buckets as the volume it was constructed with.
C28_ReadsArePure ==
    /\ [](/\ Cardinality(DOMAIN buckets) = volume
          /\ Cardinality(DOMAIN hbuckets) = volume)
    /\ [][/\ volume' = volume
          /\ \A c \in Contexts :
                (StepOf(c) /\ (ctx[c].pc \in ReadPcs \/ ctx'[c].pc \in ReadPcs)) =>
                    /\ buckets' = buckets /\ size' = size
                    /\ hbuckets' = hbuckets /\ hsize' = hsize]_vars

\* ------------------------------------------- how an iteration ends
\* Besides running to exhaustion, a started generator ends when its
\* consumer closes it (close(), or dropping the last reference to it) or
\* when an exception is raised inside the loops; both enter the `finally`
\* block from the `yield` or from the loops.

\* Mutant of iter_close: closing drops the generator without running the
\* `finally` block.
iter_close_leak(c) ==
    /\ At(c, "iter_scan") /\ Len(ctx[c].out) >= 1
    /\ Goto(c, Idle)
    /\ UNCHANGED <<buckets, size, locks>>

\* The consumer closes the generator suspended at a `yield`: GeneratorExit
\* is raised there and the `finally` block runs.
iter_close(c) ==
    /\ At(c, "iter_scan") /\ Len(ctx[c].out) >= 1
    /\ Goto(c, [ctx[c] EXCEPT !.pc = "iter_rel", !.idx = 0, !.pos = 1])
    /\ UNCHANGED <<buckets, size, locks>>

\* An exception is raised while the loops scan the buckets: it leaves the
\* `try` block through the `finally` block.
iter_error(c) ==
    /\ At(c, "iter_scan")
    /\ Goto(c, [ctx[c] EXCEPT !.pc = "iter_rel", !.idx = 0, !.pos = 1, !.exc = "Error"])
    /\ UNCHANGED <<buckets, size, locks>>

\* Contexts call the operations that take locks, and an iteration may end
\* in any of the three ways.
NextClose ==
    \E c \in Contexts :
        \/ CallLocking(c) /\ Budget /\ UNCHANGED <<volume, worker, hvars, last>>
        \/ /\ iter_close(c) \/ iter_error(c)
           /\ UNCHANGED <<volume, calls, worker, hvars, last>>
        \/ /\ \/ setitem_lock(c) \/ setitem_scan(c) \/ setitem_read(c)
              \/ setitem_write(c) \/ setitem_unlock(c)
              \/ getitem_lock(c) \/ getitem_scan(c) \/ getitem_unlock(c)
              \/ delitem_lock(c) \/ delitem_scan(c) \/ delitem_read(c)
              \/ delitem_write(c) \/ delitem_unlock(c)
              \/ contains_lock(c) \/ contains_scan(c) \/ contains_unlock(c)
              \/ iter_lock(c) \/ iter_next(c) \/ iter_unlock(c)
              \/ clear_lock(c) \/ clear_empty(c) \/ clear_unlock(c) \/ clear_size(c)
           /\ UNCHANGED <<volume, calls, worker, hvars, last>>

SpecClose == Init /\ [][NextClose]_vars

\* C31: when an iteration ends (exhausted, closed early, or by an error in
\* the scan) the context holds every bucket lock; each step of the ending
\* releases one lock that the context still holds and changes no other
\* lock, so that after n steps exactly the other Volume - n are held; and
\* when the iteration has returned the context holds no lock.
C31_IterationReleasesAll ==
    /\ [](\A c \in Contexts :
            /\ At(c, "iter_rel") => Cardinality(Held(c)) = Volume - ctx[c].idx
            /\ At(c, "idle") => Held(c) = {})
    /\ [][\A c \in Contexts :
            /\ (StepOf(c) /\ ctx[c].pc # "iter_rel" /\ ctx'[c].pc = "iter_rel") =>
                  Held(c) = BucketIds /\ locks' = locks
            /\ (StepOf(c) /\ At(c, "iter_rel")) =>
                  /\ \E i \in Held(c) : locks' = [locks EXCEPT ![i] = 0]
                  /\ ctx'[c].pc \in {"iter_rel", "idle"}
                  /\ ctx'[c].pc = "idle" => \A i \in BucketIds : locks'[i] # c]_vars

\* C31 witness: an iteration closed before it had yielded every key has
\* released its first lock and still holds another.
C31_Witness ==
    \E c \in Contexts :
        /\ At(c, "iter_rel") /\ ctx[c].idx >= 1 /\ ctx[c].exc = ""
        /\ Len(ctx[c].out) >= 1 /\ Len(ctx[c].out) < SumLen(buckets, 0)
        /\ locks[LockOrder(c)[1]] # c /\ Held(c) # {}

====
